---- MODULE Spec2Model ----
(***************************************************************************)
(* The dynamic batching scheduler of emb-infer-bge-m3                      *)
(* (src/services/batch_service.py), with the encoder wrapper of            *)
(* src/services/model_service.py and the lifespan of src/main.py.          *)
(*                                                                         *)
(* The program runs on one asyncio event loop: code between two awaits is  *)
(* one atomic step.  add_request and a sweeper tick never suspend inside   *)
(* their critical section; _process_batch suspends on the semaphore and on *)
(* the encoder call; graceful_shutdown suspends on the batch it awaits     *)
(* (holding batch_lock) and on its drain polling.                          *)
(*                                                                         *)
(* Time is discrete and kept relative to the present: where the code      *)
(* stores a time.time() value and later subtracts it from time.time(), the *)
(* model keeps the difference, which Tick increases.  A difference stops   *)
(* growing at MaxAge (at the timeout it is compared with, for the drain    *)
(* wait): every comparison of the code keeps its value.                    *)
(***************************************************************************)
EXTENDS Integers, Sequences, FiniteSets, TLC

\* ---------------------------------------------------------------- bounds
\* number of add_request calls that may be accepted in one run
MaxEntries == 3
\* number of callers that may give up waiting (cancelled futures) in one run
MaxCancels == 1
\* the value at which a measured time span stops growing
MaxAge == 1
\* the value at which the age of a queued entry stops growing in LoopSpec
MaxWait == 3
\* number of batch executions in one run of StatsSpec
MaxBatches == 7

\* ------------------------------------------------------ program constants
\* BATCH_TIMEOUT_MS (config.py), in clock units
BATCH_TIMEOUT_MS == 1
\* BatchProcessor.shutdown_timeout (batch_service.py), in clock units
shutdown_timeout == 2
\* the sleep of the sweeper after a round that raised (batch_service.py), in
\* clock units: longer than BATCH_TIMEOUT_MS
error_sleep == 2

\* The environment-configured values of config.py; one is drawn in Init.
\* The first has MAX_QUEUE_SIZE >= BATCH_SIZE as the defaults (50 and 8) do,
\* the others a queue capacity below the batch size.
Configs ==
    { [BATCH_SIZE |-> 2, MAX_QUEUE_SIZE |-> 3, PROCESSING_CONCURRENCY |-> 1],
      [BATCH_SIZE |-> 3, MAX_QUEUE_SIZE |-> 2, PROCESSING_CONCURRENCY |-> 2],
      [BATCH_SIZE |-> 3, MAX_QUEUE_SIZE |-> 1, PROCESSING_CONCURRENCY |-> 2] }

\* the three vector kinds of EmbeddingRequest
VectorKinds == {"dense", "sparse", "colbert"}

\* The requests the callers of Spec send: the number of texts and the kinds
\* whose flag (return_dense, return_sparse, return_colbert) is true.  The
\* scheduler looks at no more of a request than whether its input is empty,
\* so they are the empty list and one text, both with the default flags.
RequestChoices ==
    { [texts |-> 0, flags |-> VectorKinds],
      [texts |-> 1, flags |-> VectorKinds] }

VARIABLES
    config,             \* the values read from the environment at import
    items,              \* the request of every BatchItem created, by arrival
    future,             \* the BatchItem's future, by entry
    pending_requests,   \* BatchProcessor.pending_requests: entry and age
    batch_lock,         \* BatchProcessor.batch_lock: "free" or its holder
    processing_semaphore, \* free slots of BatchProcessor.processing_semaphore
    stats,              \* BatchProcessor.stats
    is_shutting_down,   \* BatchProcessor.is_shutting_down
    active_batches,     \* BatchProcessor.active_batches (batch ids)
    batches,            \* every list handed to _process_batch, by extraction
    last_error,         \* the HTTPException of the latest add_request call
    sweeper,            \* the start_timeout_processor task: its state, the
                        \* rest of its sleep, whether its last round raised
    shutdown,           \* the graceful_shutdown call
    app                 \* the lifespan of main.py

vars == <<config, items, future, pending_requests, batch_lock,
          processing_semaphore, stats, is_shutting_down, active_batches,
          batches, last_error, sweeper, shutdown, app>>

BATCH_SIZE == config.BATCH_SIZE
MAX_QUEUE_SIZE == config.MAX_QUEUE_SIZE
PROCESSING_CONCURRENCY == config.PROCESSING_CONCURRENCY

\* ---------------------------------------------------------------- helpers
Range(s) == { s[i] : i \in 1..Len(s) }

Min(a, b) == IF a < b THEN a ELSE b

\* Python's s[:k]
Take(s, k) == SubSeq(s, 1, Min(k, Len(s)))

\* Python's s[k:]
Drop(s, k) == SubSeq(s, Min(k, Len(s)) + 1, Len(s))

\* the texts of entry e: text j of entry e is <<e, j>>
Inputs(e, n) == [ j \in 1..n |-> <<e, j>> ]


\* Python's s[a:b] with 0 <= a <= b
PySlice(s, a, b) == SubSeq(s, Min(a, Len(s)) + 1, Min(b, Len(s)))

\* ------------------------------------------------------- Python floats
\* A Python float is an IEEE 754 double: MantissaBits significant bits,
\* every operation rounded to the nearest double (ties to even).  The float
\* a / b of two ints is kept as the pair <<a, b>>: it is the double nearest to
\* the quotient, and the operators below compute with its rounding error.
\* The int 0 is <<0, 1>>.
MantissaBits == 53

PyTrueDiv(a, b) == <<a, b>>

RECURSIVE Pow2(_)
Pow2(n) == IF n = 0 THEN 1 ELSE 2 * Pow2(n - 1)

\* 2^k modulo m
RECURSIVE Pow2Mod(_, _)
Pow2Mod(k, m) == IF k = 0 THEN 1 % m ELSE (2 * Pow2Mod(k - 1, m)) % m

\* the binary exponent of a / b: the F with 2^F <= a / b < 2^(F + 1)
RECURSIVE FloorLog2(_, _)
FloorLog2(a, b) ==
    IF a < b THEN FloorLog2(2 * a, b) - 1
    ELSE IF 2 * b <= a THEN FloorLog2(a, 2 * b) + 1
    ELSE 0

\* The rounding of a / b (a, b > 0): with k = MantissaBits - 1 - FloorLog2(a, b)
\* the double is M / 2^k for the integer M nearest to a * 2^k / b, and the
\* value below is d = M * b - a * 2^k, so that the double is
\* a / b + d / (b * 2^k).
RoundingError(a, b) ==
    LET k == MantissaBits - 1 - FloorLog2(a, b)
        r == (a * Pow2Mod(k, b)) % b
    IN  IF 2 * r < b THEN 0 - r ELSE b - r

\* Python's f * n == t for the float f = a / b and ints n > 0 and t: the
\* exact product is a * n / b + d * n / (b * 2^k), and it is rounded to t
\* when it lies within half a unit in the last place of t (a quarter below
\* t when t is a power of two).
FloatTimesIs(f, n, t) ==
    LET a == f[1]
        b == f[2]
    IN  IF a = 0 THEN t = 0
        ELSE /\ t > 0
             /\ a * n = t * b
             /\ LET d == RoundingError(a, b)
                    abs_d == IF d < 0 THEN 0 - d ELSE d
                    E == FloorLog2(t, 1)
                    ex == E - FloorLog2(a, b)
                    w == IF t = Pow2(E) /\ d < 0 THEN 4 ELSE 2
                IN  w * abs_d * n <= b * Pow2(ex)

\* ------------------------------------------------------------ data model
\* EmbeddingRequest, as add_request normalises it: a list of texts and the
\* three return_* flags (the set of the kinds whose flag is true)
EmbeddingRequest(input, flags) == [input |-> input, flags |-> flags]

\* BatchItem of entry e: its request is items[e], its future is future[e],
\* and the queue holds the entry with time.time() - timestamp
BatchItem(e, age) == [entry |-> e, age |-> age]

\* the entries of a list of BatchItems
Entries(queue) == [ i \in 1..Len(queue) |-> queue[i].entry ]

NoValue == [kind |-> "none"]

\* asyncio.Future: pending, or done with a result, an exception or cancelled
PendingFuture == [state |-> "pending", value |-> NoValue]

Done(f) == f.state # "pending"

\* ---------------------------------------------------- model_service.py
\* process_bge_embeddings: one BGEEmbeddingData per text, each carrying the
\* vector kinds whose flag is set in the request it was called with.
\* encode_ok is whether encoder.encode returns (it may raise).
process_bge_embeddings(request, encode_ok) ==
    IF request.input = <<>>
    THEN [ok |-> TRUE,
          response |-> [data |-> <<>>, embedding_types |-> request.flags]]
    ELSE IF request.flags = {}
    THEN [ok |-> FALSE, response |-> [error |-> "ValueError"]]
    ELSE IF ~encode_ok
    THEN [ok |-> FALSE, response |-> [error |-> "EncoderError"]]
    ELSE [ok |-> TRUE,
          response |->
            [data |-> [ i \in 1..Len(request.input) |->
                          [index |-> i - 1,
                           text |-> request.input[i],
                           kinds |-> request.flags] ],
             embedding_types |-> request.flags]]

\* ------------------------------------------------- _process_batch, parts
\* all_texts: the members' texts, concatenated in entry order
RECURSIVE all_texts(_)
all_texts(batch) ==
    IF batch = <<>> THEN <<>>
    ELSE items[Head(batch)].input \o all_texts(Tail(batch))

\* boundaries that count one text for every member
request_boundaries_OnePerMember(batch, current_index) ==
    [ i \in 1..Len(batch) |-> <<current_index + i - 1, current_index + i>> ]

\* request_boundaries: (start_idx, current_index) of each member,
\* current_index starting at `current_index`
RECURSIVE request_boundaries(_, _)
request_boundaries(batch, current_index) ==
    IF batch = <<>> THEN <<>>
    ELSE LET n == Len(items[Head(batch)].input)
         IN  <<  <<current_index, current_index + n>>  >>
             \o request_boundaries(Tail(batch), current_index + n)

\* a combined request that carries the flags of the last member
combined_request_LastFlags(batch) ==
    EmbeddingRequest(all_texts(batch), items[batch[Len(batch)]].flags)

\* combined_request: all texts, with the flags of the first member
combined_request(batch) ==
    EmbeddingRequest(all_texts(batch), items[batch[1]].flags)

\* a slice whose items keep the index they have in the batch result
Reindex_Kept(request_data) == request_data

\* the re-indexing loop: data_item.index = j
Reindex(request_data) ==
    [ j \in 1..Len(request_data) |->
        [request_data[j] EXCEPT !.index = j - 1] ]

\* individual_result of one member: its slice of the batch result, re-indexed,
\* and embedding_types from the member's own flags
individual_result(e, batch_result, boundary) ==
    [data |-> Reindex(PySlice(batch_result.data, boundary[1], boundary[2])),
     embedding_types |-> items[e].flags]

\* The fan-out loop from member i on.  `bad` are the members whose
\* individual result cannot be built (the try body raises before
\* set_result).  set_result and set_exception raise InvalidStateError on a
\* future that is done; raised by set_exception inside the inner handler it
\* leaves the loop (escaped).
RECURSIVE FanOut(_, _, _, _, _, _)
FanOut(fut, batch, boundaries, batch_result, bad, i) ==
    IF i > Len(batch) THEN [future |-> fut, escaped |-> FALSE]
    ELSE LET e == batch[i] IN
         IF Done(fut[e])
         THEN [future |-> fut, escaped |-> TRUE]
         ELSE IF e \in bad
         THEN FanOut([fut EXCEPT ![e] =
                         [state |-> "exception",
                          value |-> [error |-> "MemberError"]]],
                     batch, boundaries, batch_result, bad, i + 1)
         ELSE FanOut([fut EXCEPT ![e] =
                         [state |-> "result",
                          value |-> individual_result(e, batch_result,
                                                      boundaries[i])]],
                     batch, boundaries, batch_result, bad, i + 1)

\* an outer handler that fails the first member alone
FailAll_FirstOnly(fut, batch, error) ==
    [ e \in DOMAIN fut |->
        IF e = batch[1] /\ ~Done(fut[e])
        THEN [state |-> "exception", value |-> [error |-> error]]
        ELSE fut[e] ]

\* the outer handler: every member whose future is not done gets the error
FailAll(fut, batch, error) ==
    [ e \in DOMAIN fut |->
        IF e \in Range(batch) /\ ~Done(fut[e])
        THEN [state |-> "exception", value |-> [error |-> error]]
        ELSE fut[e] ]


\* ------------------------------------------------------------------ Init
\* The state when the lifespan has started the application: an empty
\* BatchProcessor (__init__), the sweeper task in its first sleep.
Init ==
    /\ config \in Configs
    /\ items = <<>>
    /\ future = <<>>
    /\ pending_requests = <<>>
    /\ batch_lock = "free"
    /\ processing_semaphore = config.PROCESSING_CONCURRENCY
    /\ stats = [total_batches |-> 0, total_requests |-> 0,
                avg_batch_size |-> <<0, 1>>, last_batch_time |-> 0]
    /\ is_shutting_down = FALSE
    /\ active_batches = {}
    /\ batches = <<>>
    /\ last_error = "none"
    /\ sweeper = [state |-> "sleeping", sleep |-> BATCH_TIMEOUT_MS,
                  raised |-> FALSE]
    /\ shutdown = [state |-> "idle", waited |-> 0, timed_out |-> FALSE]
    /\ app = "serving"

\* ------------------------------------------------------ dispatch decision
\* (time.time() - pending_requests[0].timestamp) * 1000 >= BATCH_TIMEOUT_MS
Stale(queue) ==
    /\ queue # <<>>
    /\ queue[1].age >= BATCH_TIMEOUT_MS

\* a dispatch decision that looks at the age of the oldest entry alone
should_process_StaleOnly(queue) == Stale(queue)

\* a dispatch decision that looks at the length of the queue alone
should_process_SizeOnly(queue) == Len(queue) >= BATCH_SIZE

\* a dispatch decision with > for >=
should_process_OffByOne(queue) ==
    \/ Len(queue) > BATCH_SIZE
    \/ Stale(queue)

\* an add_request that never dispatches
should_process_Never(queue) == FALSE

\* should_process of add_request, on the queue after the append
should_process(queue) ==
    \/ Len(queue) >= BATCH_SIZE
    \/ Stale(queue)

\* the capacity check with > for >=, and left out
QueueFull_OffByOne(queue) == Len(queue) > MAX_QUEUE_SIZE

QueueFull_Never(queue) == FALSE

\* a capacity check that counts the entries of the unfinished batches too
QueueFull_InFlight(queue) ==
    Len(queue)
      + Cardinality({ e \in DOMAIN items :
                        \E b \in DOMAIN batches :
                            /\ batches[b].pc # "done"
                            /\ e \in Range(batches[b].batch) })
      >= MAX_QUEUE_SIZE

\* the capacity check of add_request
QueueFull(queue) == Len(queue) >= MAX_QUEUE_SIZE

\* the new item put at the head of the queue
Enqueue_AtFront(queue, batch_item) == <<batch_item>> \o queue

\* pending_requests.append(batch_item)
Enqueue(queue, batch_item) == Append(queue, batch_item)

\* the inline extraction that does not shorten the queue
InlineRest_Kept(queue) == queue

\* the inline extraction: pending_requests[:BATCH_SIZE] and what is left
InlineBatch(queue) == Take(queue, BATCH_SIZE)
InlineRest(queue) == Drop(queue, BATCH_SIZE)

\* an extraction of the whole queue without clear()
Cleared_Kept(queue) == queue

\* an extraction that takes the oldest entry alone
WholeBatch_First(queue) == Take(queue, 1)

\* the sweeper's and the shutdown flush's extraction: pending_requests[:]
\* and the queue after clear()
WholeBatch(queue) == queue
Cleared(queue) == <<>>

\* a list handed to _process_batch that has not started to run
NewBatch(batch, via) ==
    [batch |-> Entries(batch), via |-> via, pc |-> "created", batch_time |-> 0,
     call |-> NoValue, request_boundaries |-> <<>>,
     outcome |-> "none"]

\* ----------------------------------------------------------- add_request
\* an add_request that does not look at the flag
Refusing_Never(flag) == FALSE

\* `if self.is_shutting_down` at the head of add_request
Refusing(flag) == flag

\* One call of add_request with n texts and the given flags, up to its
\* `await future` (or the exception it raises).
AddRequest(n, flags) ==
    /\ app = "serving"
    /\ IF Refusing(is_shutting_down)
       THEN /\ last_error' = "503_shutting_down"
            /\ UNCHANGED <<items, future, pending_requests, batches>>
       ELSE IF n = 0
       THEN \* empty input: process_func(request, None), no queueing
            /\ last_error' = "none"
            /\ UNCHANGED <<items, future, pending_requests, batches>>
       ELSE /\ batch_lock = "free"
            /\ IF QueueFull(pending_requests)
               THEN /\ last_error' = "503_capacity"
                    /\ UNCHANGED <<items, future, pending_requests, batches>>
               ELSE /\ Len(items) < MaxEntries
                    /\ LET e == Len(items) + 1
                           queue == Enqueue(pending_requests,
                                            BatchItem(e, 0))
                       IN  /\ items' = Append(items,
                                         EmbeddingRequest(Inputs(e, n), flags))
                           /\ future' = Append(future, PendingFuture)
                           /\ last_error' = "none"
                           /\ IF should_process(queue)
                              THEN /\ pending_requests' = InlineRest(queue)
                                   /\ batches' = Append(batches,
                                         NewBatch(InlineBatch(queue), "inline"))
                              ELSE /\ pending_requests' = queue
                                   /\ UNCHANGED batches
    /\ UNCHANGED <<config, batch_lock, processing_semaphore, stats,
                   is_shutting_down, active_batches, sweeper, shutdown, app>>

\* The caller of add_request is cancelled while it awaits its future: the
\* cancellation of the awaiting task cancels the future.
CancelWait(e) ==
    /\ e \in DOMAIN future
    /\ future[e].state = "pending"
    /\ Cardinality({ x \in DOMAIN future :
                       future[x].state = "cancelled" }) < MaxCancels
    /\ future' = [future EXCEPT ![e] =
                     [state |-> "cancelled", value |-> NoValue]]
    /\ UNCHANGED <<config, items, pending_requests, batch_lock,
                   processing_semaphore, stats, is_shutting_down,
                   active_batches, batches, last_error, sweeper, shutdown, app>>

\* a time span one unit later; it stops growing at `limit`
Older(age, limit) == IF age < limit THEN age + 1 ELSE age

\* time passes: every running time span grows by one unit (the age of a
\* queued entry up to `limit`), the sweeper's sleep gets one unit shorter
Elapse(limit) ==
    /\ pending_requests' =
           [ i \in 1..Len(pending_requests) |->
               [pending_requests[i] EXCEPT !.age = Older(@, limit)] ]
    /\ batches' =
           [ b \in 1..Len(batches) |->
               IF batches[b].pc = "running"
               THEN [batches[b] EXCEPT !.batch_time = Older(@, MaxAge)]
               ELSE batches[b] ]
    /\ sweeper' = IF sweeper.state = "sleeping" /\ sweeper.sleep > 0
                  THEN [sweeper EXCEPT !.sleep = @ - 1]
                  ELSE sweeper
    /\ shutdown' = IF shutdown.state = "polling"
                   THEN [shutdown EXCEPT
                            !.waited = Older(@, shutdown_timeout)]
                   ELSE shutdown
    /\ UNCHANGED <<config, items, future, batch_lock, processing_semaphore,
                   stats, is_shutting_down, active_batches, last_error, app>>

\* one unit of time, the measured spans growing up to MaxAge
Tick == Elapse(MaxAge)

\* -------------------------------------------------------- _process_batch
\* a section that is entered whatever the semaphore holds
SlotFree_Always(sem) == TRUE

\* `async with self.processing_semaphore` enters at once when a slot is free
SlotFree(sem) == sem > 0

\* The record of a batch that has entered the semaphore-guarded section:
\* the texts are concatenated, the boundaries recorded, the combined request
\* built and process_func called with app.state.encoder (an encoder that
\* the lifespan has deleted is one of the failures of the call).
Entered(rec) ==
    [rec EXCEPT !.pc = "running",
                !.batch_time = 0,
                !.call = combined_request(rec.batch),
                !.request_boundaries = request_boundaries(rec.batch, 0)]

\* _process_batch from its first line to its first suspension: the batch is
\* added to active_batches and takes a slot, or waits for one
Begun(rec, sem) ==
    IF SlotFree(sem)
    THEN [rec |-> Entered(rec), sem |-> sem - 1]
    ELSE [rec |-> [rec EXCEPT !.pc = "waiting"], sem |-> sem]

\* a statistics update that takes the average before it counts the batch
UpdatedStats_AverageFirst(st, size, batch_time) ==
    [total_batches |-> st.total_batches + 1,
     total_requests |-> st.total_requests + size,
     avg_batch_size |-> PyTrueDiv(st.total_requests, st.total_batches + 1),
     last_batch_time |-> batch_time]

\* the statistics after a batch of the given size that took batch_time
UpdatedStats(st, size, batch_time) ==
    LET tb == st.total_batches + 1
        tr == st.total_requests + size
    IN  [total_batches |-> tb, total_requests |-> tr,
         avg_batch_size |-> PyTrueDiv(tr, tb),
         last_batch_time |-> batch_time]

\* graceful_shutdown after its flush: it polls while active_batches is not
\* empty, and is finished otherwise
AfterFlush(active) ==
    IF active # {}
    THEN [state |-> "polling", waited |-> 0, timed_out |-> FALSE]
    ELSE [state |-> "drained", waited |-> 0, timed_out |-> FALSE]

\* the task created by asyncio.create_task runs for the first time
StartBatch(b) ==
    /\ b \in DOMAIN batches
    /\ batches[b].pc = "created"
    /\ LET g == Begun(batches[b], processing_semaphore)
       IN  /\ batches' = [batches EXCEPT ![b] = g.rec]
           /\ processing_semaphore' = g.sem
    /\ active_batches' = active_batches \cup {b}
    /\ UNCHANGED <<config, items, future, pending_requests, batch_lock,
                   stats, is_shutting_down, last_error, sweeper, shutdown, app>>

\* a batch that waited for a slot gets one
AcquireSlot(b) ==
    /\ b \in DOMAIN batches
    /\ batches[b].pc = "waiting"
    /\ SlotFree(processing_semaphore)
    /\ batches' = [batches EXCEPT ![b] = Entered(batches[b])]
    /\ processing_semaphore' = processing_semaphore - 1
    /\ UNCHANGED <<config, items, future, pending_requests, batch_lock,
                   stats, is_shutting_down, active_batches, last_error, sweeper,
                   shutdown, app>>

\* the futures and the outcome of a batch whose process_func call has ended
\* with r; `bad` as in FanOut
Resolved(fut, rec, r, bad) ==
    IF r.ok
    THEN LET fo == FanOut(fut, rec.batch, rec.request_boundaries,
                          r.response, bad, 1)
         IN  IF fo.escaped
             THEN [future |-> FailAll(fo.future, rec.batch,
                                      "InvalidStateError"),
                   outcome |-> "fanout_aborted"]
             ELSE [future |-> fo.future, outcome |-> "ok"]
    ELSE [future |-> FailAll(fut, rec.batch, r.response.error),
          outcome |-> "encoder_failed"]

\* a section that gives its slot back after a successful batch alone
Released_OnSuccess(sem, outcome) == IF outcome = "ok" THEN sem + 1 ELSE sem

\* the exit of `async with self.processing_semaphore`, whatever the outcome
\* of the batch: the slot is given back
Released(sem, outcome) == sem + 1

\* a batch that leaves active_batches after a successful run alone
Discarded_OnSuccess(active, b, outcome) ==
    IF outcome = "ok" THEN active \ {b} ELSE active

\* the finally clause of _process_batch: active_batches.discard(batch_id),
\* whatever the outcome of the batch
Discarded(active, b, outcome) == active \ {b}

\* process_func returns or raises, and _process_batch runs to its end: the
\* fan-out, the statistics, the release of the slot, the finally clause.
\* For the batch graceful_shutdown awaits, graceful_shutdown goes on: it
\* leaves batch_lock and looks at active_batches.
EncoderReturn(b, encode_ok, bad) ==
    /\ b \in DOMAIN batches
    /\ batches[b].pc = "running"
    /\ bad \subseteq Range(batches[b].batch)
    /\ LET rec == batches[b]
           r == process_bge_embeddings(rec.call, encode_ok)
           res == Resolved(future, rec, r, bad)
       IN  /\ future' = res.future
           /\ batches' = [batches EXCEPT ![b] =
                             [rec EXCEPT !.pc = "done", !.batch_time = 0,
                                         !.outcome = res.outcome]]
           /\ stats' = IF res.outcome = "ok"
                       THEN UpdatedStats(stats, Len(rec.batch),
                                         rec.batch_time)
                       ELSE stats
           /\ processing_semaphore' = Released(processing_semaphore,
                                               res.outcome)
           /\ active_batches' = Discarded(active_batches, b, res.outcome)
           /\ IF rec.via = "shutdown"
              THEN /\ batch_lock' = "free"
                   /\ shutdown' = AfterFlush(Discarded(active_batches, b,
                                                     res.outcome))
              ELSE UNCHANGED <<batch_lock, shutdown>>
    /\ UNCHANGED <<config, items, pending_requests, is_shutting_down,
                   last_error, sweeper, app>>

\* ------------------------------------------------ start_timeout_processor
\* a round that does not look at the age of the oldest entry
TimeoutBatchDue_AnyAge(queue) == queue # <<>>

\* a round that extracts whatever it finds
TimeoutBatchDue_Always(queue) == TRUE

\* the condition of a round: the queue is not empty and its oldest entry is
\* BATCH_TIMEOUT_MS old
TimeoutBatchDue(queue) == Stale(queue)

\* One round of the loop: the sleep has ended and batch_lock is free.
SweeperTick ==
    /\ sweeper.state = "sleeping"
    /\ sweeper.sleep = 0
    /\ batch_lock = "free"
    /\ IF TimeoutBatchDue(pending_requests)
       THEN /\ batches' = Append(batches,
                             NewBatch(WholeBatch(pending_requests), "sweeper"))
            /\ pending_requests' = Cleared(pending_requests)
       ELSE UNCHANGED <<batches, pending_requests>>
    /\ sweeper' = [sweeper EXCEPT !.sleep = BATCH_TIMEOUT_MS,
                                  !.raised = FALSE]
    /\ UNCHANGED <<config, items, future, batch_lock,
                   processing_semaphore, stats, is_shutting_down,
                   active_batches, last_error, shutdown, app>>

\* a sweeper whose loop an exception ends
AfterRaise_Ended(sw) == [sw EXCEPT !.state = "ended", !.raised = TRUE]

\* The sweeper after the handler of a round that raised: the handler sleeps
\* error_sleep, and the loop starts its next round with the sleep of
\* BATCH_TIMEOUT_MS.
AfterRaise(sw) ==
    [sw EXCEPT !.sleep = error_sleep + BATCH_TIMEOUT_MS, !.raised = TRUE]

\* One round of the loop in which a statement raises an Exception: before the
\* extraction, or (lost) after pending_requests.clear() and before the batch
\* task exists, so that the extracted entries are in no batch.
SweeperFail(lost) ==
    /\ sweeper.state = "sleeping"
    /\ sweeper.sleep = 0
    /\ batch_lock = "free"
    /\ IF lost
       THEN /\ TimeoutBatchDue(pending_requests)
            /\ pending_requests' = Cleared(pending_requests)
       ELSE UNCHANGED pending_requests
    /\ sweeper' = AfterRaise(sweeper)
    /\ UNCHANGED <<config, items, future, batch_lock, processing_semaphore,
                   stats, is_shutting_down, active_batches, batches,
                   last_error, shutdown, app>>

\* ------------------------------------------------------ graceful_shutdown
\* The call of graceful_shutdown up to its first suspension.
GracefulShutdown ==
    /\ shutdown.state = "idle"
    /\ is_shutting_down' = TRUE
    /\ IF pending_requests # <<>>
       THEN /\ batch_lock = "free"
            /\ LET b == Len(batches) + 1
                   g == Begun(NewBatch(WholeBatch(pending_requests),
                                       "shutdown"),
                              processing_semaphore)
               IN  /\ batches' = Append(batches, g.rec)
                   /\ processing_semaphore' = g.sem
                   /\ active_batches' = active_batches \cup {b}
            /\ pending_requests' = Cleared(pending_requests)
            /\ batch_lock' = "shutdown"
            /\ shutdown' = [shutdown EXCEPT !.state = "flushing"]
       ELSE /\ shutdown' = AfterFlush(active_batches)
            /\ UNCHANGED <<batches, processing_semaphore, active_batches,
                           pending_requests, batch_lock>>
    /\ UNCHANGED <<config, items, future, stats, last_error, sweeper, app>>

\* The polling loop of graceful_shutdown ends: active_batches is empty, or
\* shutdown_timeout has passed.
DrainPoll ==
    /\ shutdown.state = "polling"
    /\ \/ active_batches = {}
       \/ shutdown.waited >= shutdown_timeout
    /\ shutdown' = [state |-> "drained", waited |-> 0,
                    timed_out |-> (active_batches # {})]
    /\ UNCHANGED <<config, items, future, pending_requests, batch_lock,
                   processing_semaphore, stats, is_shutting_down,
                   active_batches, batches, last_error, sweeper, app>>

\* --------------------------------------------------------------- lifespan
\* The lifespan leaves its yield: the sweeper task is cancelled and
\* app.state.encoder deleted.
LifespanExit ==
    /\ app = "serving"
    /\ app' = "stopped"
    /\ sweeper' = [sweeper EXCEPT !.state = "cancelled", !.sleep = 0]
    /\ UNCHANGED <<config, items, future, pending_requests, batch_lock,
                   processing_semaphore, stats, is_shutting_down,
                   active_batches, batches, last_error, shutdown>>

\* ------------------------------------------------------------------ Next
Next ==
    \/ \E r \in RequestChoices : AddRequest(r.texts, r.flags)
    \/ \E e \in 1..MaxEntries : CancelWait(e)
    \/ Tick
    \/ \E b \in 1..MaxEntries : StartBatch(b)
    \/ \E b \in 1..MaxEntries : AcquireSlot(b)
    \/ \E b \in 1..MaxEntries, encode_ok \in BOOLEAN,
          bad \in {{}} \cup { {e} : e \in 1..MaxEntries } :
             EncoderReturn(b, encode_ok, bad)
    \/ SweeperTick
    \/ GracefulShutdown
    \/ DrainPoll
    \/ LifespanExit

Spec == Init /\ [][Next]_vars


\* The scheduling the event loop gives: time passes, a sleeping sweeper is
\* woken, a created task is run, a waiter for a free slot gets it, every
\* encoder call returns or raises, the drain polling goes on.
FairSpec ==
    /\ Spec
    /\ WF_vars(Tick)
    /\ WF_vars(SweeperTick)
    /\ WF_vars(\E b \in 1..MaxEntries : StartBatch(b))
    /\ WF_vars(\E b \in 1..MaxEntries : AcquireSlot(b))
    /\ WF_vars(\E b \in 1..MaxEntries, encode_ok \in BOOLEAN,
                  bad \in {{}} \cup { {e} : e \in 1..MaxEntries } :
                     EncoderReturn(b, encode_ok, bad))
    /\ WF_vars(DrainPoll)

\* the encoder call of the batch graceful_shutdown awaits returns or raises
FlushReturn ==
    \E b \in 1..MaxEntries, encode_ok \in BOOLEAN,
       bad \in {{}} \cup { {e} : e \in 1..MaxEntries } :
          /\ b \in DOMAIN batches
          /\ batches[b].via = "shutdown"
          /\ EncoderReturn(b, encode_ok, bad)

\* The scheduling of FairSpec, but for the encoder: the calls of the batches
\* dispatched by add_request and by the sweeper may never return.
DrainSpec ==
    /\ Spec
    /\ WF_vars(Tick)
    /\ WF_vars(SweeperTick)
    /\ WF_vars(\E b \in 1..MaxEntries : StartBatch(b))
    /\ WF_vars(\E b \in 1..MaxEntries : AcquireSlot(b))
    /\ WF_vars(FlushReturn)
    /\ WF_vars(DrainPoll)

\* ------------------------------------------------ one batch, any requests
\* The requests of the members of a batch: one or two texts, and flag sets
\* that differ from member to member; the third has no flag set.
BatchShapes ==
    { [texts |-> 1, flags |-> {"dense"}],
      [texts |-> 2, flags |-> {"sparse", "colbert"}],
      [texts |-> 1, flags |-> {}],
      [texts |-> 2, flags |-> VectorKinds] }

\* the default values of config.py
DefaultConfig ==
    [BATCH_SIZE |-> 8, MAX_QUEUE_SIZE |-> 50, PROCESSING_CONCURRENCY |-> 2]

\* The state after the sweeper has extracted a queue of one to MaxEntries
\* entries, of any requests, as one batch.
ExecInit ==
    /\ config = DefaultConfig
    /\ \E k \in 1..MaxEntries : \E w \in [1..k -> BatchShapes] :
          /\ items = [ e \in 1..k |->
                         EmbeddingRequest(Inputs(e, w[e].texts), w[e].flags) ]
          /\ future = [ e \in 1..k |-> PendingFuture ]
          /\ batches = << NewBatch([ e \in 1..k |-> BatchItem(e, MaxAge) ],
                                   "sweeper") >>
    /\ pending_requests = <<>>
    /\ batch_lock = "free"
    /\ processing_semaphore = config.PROCESSING_CONCURRENCY
    /\ stats = [total_batches |-> 0, total_requests |-> 0,
                avg_batch_size |-> <<0, 1>>, last_batch_time |-> 0]
    /\ is_shutting_down = FALSE
    /\ active_batches = {}
    /\ last_error = "none"
    /\ sweeper = [state |-> "sleeping", sleep |-> BATCH_TIMEOUT_MS,
                  raised |-> FALSE]
    /\ shutdown = [state |-> "idle", waited |-> 0, timed_out |-> FALSE]
    /\ app = "serving"

\* the execution of that batch
ExecNext ==
    \/ \E e \in 1..MaxEntries : CancelWait(e)
    \/ Tick
    \/ \E b \in 1..MaxEntries : StartBatch(b)
    \/ \E b \in 1..MaxEntries, encode_ok \in BOOLEAN,
          bad \in {{}} \cup { {e} : e \in 1..MaxEntries } :
             EncoderReturn(b, encode_ok, bad)

ExecSpec == ExecInit /\ [][ExecNext]_vars

\* ------------------------------------------- the sweeper and its handler
\* The serving application with rounds of the sweeper that raise.  A round
\* that raises nothing is taken again and again when the sweeper is woken
\* again and again (not every round raises).
SweepNext ==
    \/ \E r \in RequestChoices : AddRequest(r.texts, r.flags)
    \/ Tick
    \/ SweeperTick
    \/ \E lost \in BOOLEAN : SweeperFail(lost)
    \/ \E b \in 1..MaxEntries : StartBatch(b)
    \/ \E b \in 1..MaxEntries : AcquireSlot(b)
    \/ \E b \in 1..MaxEntries, encode_ok \in BOOLEAN,
          bad \in {{}} \cup { {e} : e \in 1..MaxEntries } :
             EncoderReturn(b, encode_ok, bad)
    \/ LifespanExit

SweepSpec ==
    /\ Init
    /\ [][SweepNext]_vars
    /\ WF_vars(Tick)
    /\ SF_vars(SweeperTick)
    /\ WF_vars(\E b \in 1..MaxEntries : StartBatch(b))
    /\ WF_vars(\E b \in 1..MaxEntries : AcquireSlot(b))
    /\ WF_vars(\E b \in 1..MaxEntries, encode_ok \in BOOLEAN,
                  bad \in {{}} \cup { {e} : e \in 1..MaxEntries } :
                     EncoderReturn(b, encode_ok, bad))

\* ------------------------------------------- the event loop and the clock
\* The application as main.py and routes.py run it: every batch is processed
\* by process_bge_embeddings, which calls encoder.encode without awaiting
\* anything, so the thread of the event loop is in that call from the start
\* of the batch to its end and no other coroutine runs meanwhile.
LoopBlocked == \E b \in DOMAIN batches : batches[b].pc = "running"

\* the sleep of the sweeper has ended
SweeperDue == sweeper.state = "sleeping" /\ sweeper.sleep = 0

\* a task or timer the loop can run at once: the loop runs it before time
\* passes
LoopReady ==
    \/ SweeperDue /\ batch_lock = "free"
    \/ \E b \in DOMAIN batches : batches[b].pc = "created"

\* a request handler runs add_request
LoopAddRequest ==
    /\ ~LoopBlocked
    /\ \E r \in RequestChoices : AddRequest(r.texts, r.flags)

\* the sweeper runs one round
LoopSweeperTick == ~LoopBlocked /\ SweeperTick

\* a created batch task runs up to the encoder call
LoopStartBatch == ~LoopBlocked /\ \E b \in 1..MaxEntries : StartBatch(b)

\* the encoder call ends and the batch task runs to its end
LoopEncoderReturn ==
    \E b \in 1..MaxEntries, encode_ok \in BOOLEAN,
       bad \in {{}} \cup { {e} : e \in 1..MaxEntries } :
          EncoderReturn(b, encode_ok, bad)

\* time passes while the loop is in an encoder call or has nothing to run
LoopTick ==
    /\ LoopBlocked \/ ~LoopReady
    /\ Elapse(MaxWait)

LoopNext ==
    \/ LoopAddRequest
    \/ LoopSweeperTick
    \/ LoopStartBatch
    \/ LoopEncoderReturn
    \/ LoopTick

LoopSpec == Init /\ [][LoopNext]_vars


\* ----------------------------------------------- a run of batch executions
\* The statistics over a run of _process_batch executions, one after the
\* other, with the default configuration: a full batch, a batch of two and a
\* single entry.  Requests and futures are left out: a batch is the list of
\* its members' numbers.
BatchSizes == {1, 2, DefaultConfig.BATCH_SIZE}

\* the number of members of the first k batches
RECURSIVE MembersUpTo(_)
MembersUpTo(k) ==
    IF k = 0 THEN 0 ELSE MembersUpTo(k - 1) + Len(batches[k].batch)

\* an empty BatchProcessor (__init__) with the default configuration
StatsInit ==
    /\ config = DefaultConfig
    /\ items = <<>>
    /\ future = <<>>
    /\ pending_requests = <<>>
    /\ batch_lock = "free"
    /\ processing_semaphore = config.PROCESSING_CONCURRENCY
    /\ stats = [total_batches |-> 0, total_requests |-> 0,
                avg_batch_size |-> <<0, 1>>, last_batch_time |-> 0]
    /\ is_shutting_down = FALSE
    /\ active_batches = {}
    /\ batches = <<>>
    /\ last_error = "none"
    /\ sweeper = [state |-> "sleeping", sleep |-> BATCH_TIMEOUT_MS,
                  raised |-> FALSE]
    /\ shutdown = [state |-> "idle", waited |-> 0, timed_out |-> FALSE]
    /\ app = "serving"

\* One _process_batch from its start to its end, on a batch of `size` new
\* entries: the statistics are updated when the encoder call and the fan-out
\* raise nothing, and left alone when the encoder call raises.
BatchEnds(size, encode_ok) ==
    /\ Len(batches) < MaxBatches
    /\ LET first == MembersUpTo(Len(batches))
           rec == NewBatch([ j \in 1..size |-> BatchItem(first + j, 0) ],
                           "inline")
       IN  batches' = Append(batches,
                         [rec EXCEPT !.pc = "done",
                                     !.outcome = IF encode_ok THEN "ok"
                                                 ELSE "encoder_failed"])
    /\ stats' = IF encode_ok THEN UpdatedStats(stats, size, 0) ELSE stats
    /\ UNCHANGED <<config, items, future, pending_requests, batch_lock,
                   processing_semaphore, is_shutting_down, active_batches,
                   last_error, sweeper, shutdown, app>>

StatsNext ==
    \E size \in BatchSizes, encode_ok \in BOOLEAN : BatchEnds(size, encode_ok)

StatsSpec == StatsInit /\ [][StatsNext]_vars

\* ================================================================ claims
\* the batches an entry has been put in, and whether it is queued
BatchesOf(e) == { b \in DOMAIN batches : e \in Range(batches[b].batch) }

Queued(e) == e \in Range(Entries(pending_requests))

\* the place of entry e in the list s
Position(s, e) == CHOOSE i \in 1..Len(s) : s[i] = e

\* graceful_shutdown has given up waiting for the batches still running
Abandoned == shutdown.state = "drained" /\ shutdown.timed_out

Settled(e) == e \in DOMAIN future /\ Done(future[e])

\* C1: under the fair scheduling of FairSpec, every entry that add_request
\* appended to the queue has its future settled in the end, unless
\* graceful_shutdown has given up after its drain timeout.
C1_EveryEntrySettles ==
    \A e \in 1..MaxEntries :
        (e \in DOMAIN future) ~> (Settled(e) \/ Abandoned)

\* C2: no entry is ever in two batches or twice in one, and an entry that is
\* in a batch is no longer in pending_requests.
C2_ExtractedOnce ==
    \A e \in DOMAIN items :
        /\ Cardinality(BatchesOf(e)) <= 1
        /\ \A b \in BatchesOf(e) :
              Cardinality({ i \in 1..Len(batches[b].batch) :
                              batches[b].batch[i] = e }) = 1
        /\ ~(Queued(e) /\ BatchesOf(e) # {})

\* all entries extracted, by the inline path and by the sweeper
C2_Witness ==
    /\ \E b \in DOMAIN batches : batches[b].via = "inline"
    /\ \E b \in DOMAIN batches : batches[b].via = "sweeper"
    /\ Len(items) = MaxEntries
    /\ pending_requests = <<>>

\* the queue an extraction of this step finds: pending_requests, with the
\* entry this step has created appended
QueueAtExtraction ==
    IF Len(items') > Len(items)
    THEN Append(Entries(pending_requests), Len(items'))
    ELSE Entries(pending_requests)

\* C3: every step that hands a batch to _process_batch takes a prefix of the
\* queue as it is at that moment, in order, and leaves exactly the rest, in
\* order; and the queue loses entries in no other step.
C3_PrefixExtraction ==
    [][ /\ Len(batches') > Len(batches) =>
             \E k \in 0..Len(QueueAtExtraction) :
                /\ batches'[Len(batches')].batch =
                      SubSeq(QueueAtExtraction, 1, k)
                /\ Entries(pending_requests') =
                      SubSeq(QueueAtExtraction, k + 1, Len(QueueAtExtraction))
        /\ Len(batches') = Len(batches) =>
             Entries(pending_requests') = QueueAtExtraction ]_vars

\* BATCH_SIZE = 2, arrivals A, B, C and no timeout: [A, B] is the first
\* batch and [C] is queued
C3_Witness ==
    /\ BATCH_SIZE = 2
    /\ Len(batches) = 1
    /\ batches[1].batch = <<1, 2>>
    /\ batches[1].via = "inline"
    /\ Entries(pending_requests) = <<3>>
    /\ pending_requests[1].age < BATCH_TIMEOUT_MS

\* C4: entries leave the queue in arrival order: of two entries, the later
\* one is in a batch only if the earlier one is in an earlier batch or in
\* the same batch at an earlier place; in the queue they keep their order.
C4_Fifo ==
    \A x \in DOMAIN items, y \in DOMAIN items :
        x < y =>
          /\ BatchesOf(y) # {} =>
               /\ BatchesOf(x) # {}
               /\ \A bx \in BatchesOf(x), by \in BatchesOf(y) :
                     \/ bx < by
                     \/ /\ bx = by
                        /\ Position(batches[bx].batch, x)
                             < Position(batches[by].batch, y)
          /\ Queued(x) /\ Queued(y) =>
               Position(Entries(pending_requests), x)
                 < Position(Entries(pending_requests), y)

C4_Witness ==
    /\ Len(batches) = 2
    /\ batches[1].batch = <<1>>
    /\ batches[2].batch = <<2, 3>>

\* C5: pending_requests never holds more than MAX_QUEUE_SIZE entries.
C5_QueueBounded == Len(pending_requests) <= MAX_QUEUE_SIZE

C5_Witness ==
    /\ Len(pending_requests) = MAX_QUEUE_SIZE
    /\ last_error = "503_capacity"

\* C6: an add_request that finds MAX_QUEUE_SIZE or more entries queued
\* raises the capacity error and changes neither the queue, the batches, the
\* statistics nor active_batches.
C6_RejectedAtCapacity ==
    [][ \A r \in RequestChoices :
          ( /\ r.texts > 0
            /\ ~is_shutting_down
            /\ Len(pending_requests) >= MAX_QUEUE_SIZE
            /\ AddRequest(r.texts, r.flags) )
          => /\ last_error' = "503_capacity"
             /\ UNCHANGED <<pending_requests, items, future, batches, stats,
                            active_batches>> ]_vars

\* MAX_QUEUE_SIZE = 1 and one entry queued: the second call is rejected and
\* the length stays 1
C6_Witness ==
    /\ MAX_QUEUE_SIZE = 1
    /\ Len(pending_requests) = 1
    /\ Len(items) = 1
    /\ last_error = "503_capacity"


\* a member of a batch whose future holds the error the encoder call raised
FailedByEncoder(e) ==
    /\ future[e].state = "exception"
    /\ future[e].value.error \in {"EncoderError", "ValueError"}

\* C7: after a batch whose encoder call failed, no member's future holds a
\* result: every member's future holds the error of the call, but for the
\* members whose caller had cancelled the future before.
C7_EncoderFailureFailsAll ==
    \A b \in DOMAIN batches :
        batches[b].outcome = "encoder_failed" =>
            \A e \in Range(batches[b].batch) :
                FailedByEncoder(e) \/ future[e].state = "cancelled"

C7_Witness ==
    \E b \in DOMAIN batches :
        /\ batches[b].outcome = "encoder_failed"
        /\ Len(batches[b].batch) >= 2
        /\ \A e \in Range(batches[b].batch) : FailedByEncoder(e)

\* C8: after a batch whose encoder call succeeded, every member's future holds
\* its own result, but for the members whose own result could not be built
\* (they hold that error) or delivered (their caller had cancelled).
C8_MemberFailureIsolated ==
    \A b \in DOMAIN batches :
        (batches[b].pc = "done" /\ batches[b].outcome # "encoder_failed") =>
            \A e \in Range(batches[b].batch) :
                \/ future[e].state = "result"
                \/ future[e].state = "cancelled"
                \/ /\ future[e].state = "exception"
                   /\ future[e].value.error = "MemberError"

\* C9: the response delivered to a member names and carries exactly the
\* vector kinds that member asked for.
C9_OwnKindsOnly ==
    \A e \in DOMAIN future :
        future[e].state = "result" =>
            /\ future[e].value.embedding_types = items[e].flags
            /\ \A i \in DOMAIN future[e].value.data :
                  future[e].value.data[i].kinds = items[e].flags

\* the batches inside the semaphore-guarded section
InSection == { b \in DOMAIN batches : batches[b].pc = "running" }

\* C10: at most PROCESSING_CONCURRENCY batches are inside the
\* semaphore-guarded section, and the free slots are those they leave.
C10_ConcurrencyBounded ==
    /\ Cardinality(InSection) <= PROCESSING_CONCURRENCY
    /\ processing_semaphore = PROCESSING_CONCURRENCY - Cardinality(InSection)

\* the section is full, one batch run by graceful_shutdown, and a batch waits
C10_Witness ==
    /\ Cardinality(InSection) = PROCESSING_CONCURRENCY
    /\ \E b \in InSection : batches[b].via = "shutdown"
    /\ \E b \in DOMAIN batches : batches[b].pc = "waiting"

\* C11: an add_request whose append makes the queue BATCH_SIZE long hands a
\* batch to _process_batch in the same step, and no step leaves
\* pending_requests with BATCH_SIZE or more entries for a later add_request
\* to find.
C11_DispatchAtBatchSize ==
    [][ /\ ( /\ Len(items') > Len(items)
             /\ Len(pending_requests) + 1 = BATCH_SIZE )
           => /\ Len(batches') = Len(batches) + 1
              /\ batches'[Len(batches')].via = "inline"
              /\ Len(batches'[Len(batches')].batch) = BATCH_SIZE
        /\ Len(pending_requests') < BATCH_SIZE ]_vars

\* two fresh entries with BATCH_SIZE = 2: the second append dispatched both
C11_Witness ==
    /\ Len(items) = BATCH_SIZE
    /\ Len(batches) = 1
    /\ batches[1].via = "inline"
    /\ Len(batches[1].batch) = BATCH_SIZE
    /\ pending_requests = <<>>
    /\ last_error = "none"

\* one sweep period: the sleep of start_timeout_processor, in clock units
SweepPeriod == BATCH_TIMEOUT_MS

\* C12: while the application serves, no entry stays in pending_requests for
\* longer than BATCH_TIMEOUT_MS plus one sweep period after its arrival: the
\* sweeper has extracted it by then, if no add_request has.
C12_SweptInTime ==
    \A i \in DOMAIN pending_requests :
        pending_requests[i].age <= BATCH_TIMEOUT_MS + SweepPeriod

\* C13: once is_shutting_down is set it stays set, every add_request from
\* then on raises the shutdown 503, and no step creates an entry or makes
\* pending_requests longer.
C13_NoEntryAfterShutdown ==
    [][ is_shutting_down =>
          /\ is_shutting_down'
          /\ \A r \in RequestChoices :
                AddRequest(r.texts, r.flags) =>
                    last_error' = "503_shutting_down"
          /\ Len(items') = Len(items)
          /\ Len(pending_requests') <= Len(pending_requests) ]_vars

\* an add_request refused after graceful_shutdown has finished, the
\* application still serving
C13_Witness ==
    /\ is_shutting_down
    /\ shutdown.state = "drained"
    /\ last_error = "503_shutting_down"
    /\ app = "serving"

\* C14: under the scheduling of DrainSpec, where batches dispatched before
\* graceful_shutdown may never finish, a graceful_shutdown that has begun
\* reaches drained.
C14_ShutdownTerminates ==
    (shutdown.state # "idle") ~> (shutdown.state = "drained")

\* C15: when graceful_shutdown has returned without its drain timeout
\* elapsing, every entry that add_request accepted has its future settled.
C15_DrainedMeansSettled ==
    (shutdown.state = "drained" /\ ~shutdown.timed_out) =>
        \A e \in DOMAIN items : Settled(e)

\* C16: the ranges recorded for a batch are as many as its members; the first
\* starts at 0, each starts where the one before ends, the last ends at the
\* number of texts of the combined request, and range i is as long as the
\* text list of member i.
C16_BoundariesPartition ==
    \A b \in DOMAIN batches :
        batches[b].pc \in {"running", "done"} =>
            LET rb == batches[b].request_boundaries
                members == batches[b].batch
            IN  /\ Len(rb) = Len(members)
                /\ rb[1][1] = 0
                /\ \A i \in 2..Len(rb) : rb[i][1] = rb[i - 1][2]
                /\ rb[Len(rb)][2] = Len(batches[b].call.input)
                /\ \A i \in 1..Len(rb) :
                      rb[i][2] - rb[i][1] = Len(items[members[i]].input)

\* three members with one, two and one texts
C16_Witness ==
    \E b \in DOMAIN batches :
        /\ batches[b].pc = "running"
        /\ batches[b].request_boundaries = << <<0, 1>>, <<1, 3>>, <<3, 4>> >>

\* C17: while a batch waits for a slot of the semaphore or is inside the
\* semaphore-guarded section, batch_lock is not held.
C17_ExecutesOutsideLock ==
    \A b \in DOMAIN batches :
        batches[b].pc \in {"waiting", "running"} => batch_lock = "free"

\* C18: a step in which a batch whose encoder call failed ends leaves stats
\* as they are; a step in which a batch whose encoder call succeeded ends
\* adds 1 to total_batches and the size of the batch to total_requests; no
\* other step changes stats.
C18_StatsOnSuccessOnly ==
    [][ /\ \A b \in DOMAIN batches :
              (batches[b].pc = "running" /\ batches'[b].pc = "done") =>
                  IF batches'[b].outcome = "encoder_failed"
                  THEN stats' = stats
                  ELSE /\ stats'.total_batches = stats.total_batches + 1
                       /\ stats'.total_requests =
                             stats.total_requests + Len(batches[b].batch)
        /\ (\A b \in DOMAIN batches : batches'[b].pc = batches[b].pc)
              => stats' = stats ]_vars

\* the sizes of the first k batches that ended with the statistics update
RECURSIVE SuccessfulSizes(_)
SuccessfulSizes(k) ==
    IF k = 0 THEN 0
    ELSE SuccessfulSizes(k - 1)
         + (IF batches[k].outcome = "ok" THEN Len(batches[k].batch) ELSE 0)

\* C19, as the claim states it: whenever total_batches > 0, Python's
\* avg_batch_size * total_batches == total_requests holds, and total_requests
\* is the sum of the sizes of the batches that completed successfully.
C19_AverageTimesBatches ==
    stats.total_batches > 0 =>
        /\ FloatTimesIs(stats.avg_batch_size, stats.total_batches,
                        stats.total_requests)
        /\ stats.total_requests = SuccessfulSizes(Len(batches))

\* C19, amended: whenever total_batches > 0, avg_batch_size is the float
\* total_requests / total_batches of the present counters (the exact quotient
\* rounded once), and total_requests is the sum of the sizes of the batches
\* that completed successfully.
C19_AverageIsQuotient ==
    stats.total_batches > 0 =>
        /\ stats.avg_batch_size =
              PyTrueDiv(stats.total_requests, stats.total_batches)
        /\ stats.total_requests = SuccessfulSizes(Len(batches))

\* seven successful batches of 29 entries in all: the float 29 / 7 times 7
\* is not 29
C19_Witness ==
    /\ stats.total_batches = 7
    /\ stats.total_requests = 29
    /\ ~FloatTimesIs(stats.avg_batch_size, 7, 29)

\* C20: the sweeper loop ends by cancellation alone, and under the scheduling
\* of SweepSpec a round that raised is followed by a round that runs to its
\* end, unless the task is cancelled before.
C20_SweeperSurvives ==
    /\ [](sweeper.state \in {"sleeping", "cancelled"})
    /\ [](sweeper.state = "cancelled" => app = "stopped")
    /\ sweeper.raised ~> (~sweeper.raised \/ sweeper.state = "cancelled")

\* a round has raised after clearing the queue, the handler's sleep is over
\* and the sweeper is about to run its next round
C20_Witness ==
    /\ sweeper.raised
    /\ sweeper.state = "sleeping"
    /\ sweeper.sleep = 0
    /\ app = "serving"
    /\ Len(items) > 0
    /\ pending_requests = <<>>
    /\ batches = <<>>

\* C21: every batch handed to _process_batch by add_request or by the flush of
\* graceful_shutdown has at most BATCH_SIZE members.
C21_InlineAndFlushBounded ==
    \A b \in DOMAIN batches :
        batches[b].via \in {"inline", "shutdown"} =>
            Len(batches[b].batch) <= BATCH_SIZE

\* a batch of BATCH_SIZE members dispatched by add_request, and a later entry
\* flushed by graceful_shutdown
C21_Witness ==
    /\ \E b \in DOMAIN batches :
          /\ batches[b].via = "inline"
          /\ Len(batches[b].batch) = BATCH_SIZE
    /\ \E b \in DOMAIN batches :
          /\ batches[b].via = "shutdown"
          /\ batches[b].batch # <<>>

\* C22: the sweeper is cancelled only after graceful_shutdown has set
\* is_shutting_down, and under the scheduling of FairSpec every entry that is
\* in pending_requests when the lifespan has ended gets its future settled.
C22_DrainBeforeCancel ==
    /\ [](sweeper.state = "cancelled" => is_shutting_down)
    /\ \A e \in 1..MaxEntries :
          (app = "stopped" /\ Queued(e)) ~> Settled(e)

\* the batch graceful_shutdown has flushed and awaited
FlushBatches == { b \in DOMAIN batches : batches[b].via = "shutdown" }

\* C23: a graceful_shutdown that finds entries queued hands all of them, in
\* order, to _process_batch as one batch and leaves the queue empty; it starts
\* its drain wait, and returns, only when that batch has run to its end with
\* every member's future settled; and from the flush on pending_requests is
\* empty.
C23_FlushedBeforeDrainWait ==
    /\ [][ (shutdown.state = "idle" /\ shutdown'.state # "idle"
            /\ pending_requests # <<>>)
           => /\ Len(batches') = Len(batches) + 1
              /\ batches'[Len(batches')].via = "shutdown"
              /\ batches'[Len(batches')].batch = Entries(pending_requests)
              /\ shutdown'.state = "flushing" ]_vars
    /\ [](shutdown.state # "idle" => pending_requests = <<>>)
    /\ [](shutdown.state \in {"polling", "drained"} =>
            \A b \in FlushBatches :
                /\ batches[b].pc = "done"
                /\ \A e \in Range(batches[b].batch) : Settled(e))

\* graceful_shutdown has returned after flushing two entries, while a batch
\* dispatched before it is still running
C23_Witness ==
    /\ shutdown.state = "drained"
    /\ \E b \in FlushBatches : Len(batches[b].batch) = 2
    /\ \E b \in DOMAIN batches : batches[b].pc = "running"

\* C24: every step in which a batch leaves the semaphore-guarded section,
\* whatever its outcome, frees one slot, and whenever no batch is inside the
\* section all PROCESSING_CONCURRENCY slots are free.
C24_SlotReleased ==
    /\ [][ \A b \in DOMAIN batches :
              (batches[b].pc = "running" /\ batches'[b].pc = "done") =>
                  processing_semaphore' = processing_semaphore + 1 ]_vars
    /\ [](InSection = {} => processing_semaphore = PROCESSING_CONCURRENCY)

\* three batches have ended, one with all results delivered, one with the
\* encoder call failed and one with a member's own result failed; no batch is
\* inside the section
C24_Witness ==
    /\ InSection = {}
    /\ processing_semaphore = PROCESSING_CONCURRENCY
    /\ \E b \in DOMAIN batches :
          /\ batches[b].outcome = "ok"
          /\ \A e \in Range(batches[b].batch) : future[e].state = "result"
    /\ \E b \in DOMAIN batches : batches[b].outcome = "encoder_failed"
    /\ \E b \in DOMAIN batches :
          /\ batches[b].outcome = "ok"
          /\ \E e \in Range(batches[b].batch) :
                /\ future[e].state = "exception"
                /\ future[e].value.error = "MemberError"

\* C25: a round of the sweeper that finds the queue empty, or its oldest entry
\* younger than BATCH_TIMEOUT_MS, changes neither the queue nor the batches; a
\* round that finds the oldest entry BATCH_TIMEOUT_MS old or older hands the
\* whole queue, in order, to _process_batch as one batch and leaves the queue
\* empty.
C25_SweeperTakesWholeQueue ==
    [][ SweeperTick =>
          IF /\ pending_requests # <<>>
             /\ pending_requests[1].age >= BATCH_TIMEOUT_MS
          THEN /\ Len(batches') = Len(batches) + 1
               /\ batches'[Len(batches')].batch = Entries(pending_requests)
               /\ batches'[Len(batches')].via = "sweeper"
               /\ \A b \in DOMAIN batches : batches'[b] = batches[b]
               /\ pending_requests' = <<>>
          ELSE UNCHANGED <<pending_requests, batches>> ]_vars

\* the round that has just ended took a queue of two entries as one batch
C25_Witness ==
    /\ sweeper.state = "sleeping"
    /\ sweeper.sleep = BATCH_TIMEOUT_MS
    /\ batches # <<>>
    /\ batches[Len(batches)].via = "sweeper"
    /\ batches[Len(batches)].pc = "created"
    /\ Len(batches[Len(batches)].batch) = 2
    /\ pending_requests = <<>>

\* C26: an add_request that has appended its entry hands a batch to
\* _process_batch in the same step exactly when the queue, the new entry
\* counted, has BATCH_SIZE entries or more, or its oldest entry is
\* BATCH_TIMEOUT_MS old or older; the batch is then the first BATCH_SIZE
\* entries of that queue.  Otherwise the step creates no batch and leaves the
\* queue with the new entry at its end.
C26_DispatchIffDue ==
    [][ Len(items') > Len(items) =>
          LET oldest_age == IF pending_requests = <<>> THEN 0
                            ELSE pending_requests[1].age
              due == \/ Len(pending_requests) + 1 >= BATCH_SIZE
                     \/ oldest_age >= BATCH_TIMEOUT_MS
          IN  IF due
              THEN /\ Len(batches') = Len(batches) + 1
                   /\ batches'[Len(batches')].via = "inline"
                   /\ batches'[Len(batches')].batch =
                         Take(QueueAtExtraction, BATCH_SIZE)
              ELSE /\ batches' = batches
                   /\ Entries(pending_requests') = QueueAtExtraction
                   /\ pending_requests'[Len(pending_requests')].entry
                         = Len(items') ]_vars

\* an add_request has dispatched fewer than BATCH_SIZE entries because the
\* oldest had timed out, and a later add_request has left its entry queued
C26_Witness ==
    /\ \E b \in DOMAIN batches :
          /\ batches[b].via = "inline"
          /\ Len(batches[b].batch) = 2
          /\ BATCH_SIZE > 2
    /\ Len(pending_requests) = 1
    /\ pending_requests[1].age = 0

\* the number of texts of the members before member i of a batch
RECURSIVE TextsBefore(_, _)
TextsBefore(members, i) ==
    IF i = 1 THEN 0
    ELSE TextsBefore(members, i - 1) + Len(items[members[i - 1]].input)

\* C27: a batch that has not entered the semaphore-guarded section has made no
\* call of process_func; a batch that has entered it has made one, whose
\* request holds the texts of member 1, then those of member 2, and so on, each
\* member's in its own order and nothing else, with the flags of member 1; and
\* the call of a batch, once made, is never replaced by another.
C27_OneCombinedCall ==
    /\ [](\A b \in DOMAIN batches :
            LET members == batches[b].batch
                call == batches[b].call
            IN  IF batches[b].pc \in {"created", "waiting"}
                THEN call = NoValue
                ELSE /\ call.flags = items[members[1]].flags
                     /\ Len(call.input) =
                           TextsBefore(members, Len(members))
                             + Len(items[members[Len(members)]].input)
                     /\ \A i \in 1..Len(members) :
                           \A j \in 1..Len(items[members[i]].input) :
                              call.input[TextsBefore(members, i) + j]
                                = items[members[i]].input[j])
    /\ [][ \A b \in DOMAIN batches :
              batches[b].call # NoValue =>
                  batches'[b].call = batches[b].call ]_vars

\* the call of a batch of three members whose flags differ: four texts, the
\* flags of the first member
C27_Witness ==
    \E b \in DOMAIN batches :
        /\ batches[b].pc = "done"
        /\ Len(batches[b].batch) = 3
        /\ Len(batches[b].call.input) = 4
        /\ batches[b].call.flags = {"dense"}
        /\ items[batches[b].batch[3]].flags = VectorKinds

\* C28: a result delivered to a member has one data item for each text of the
\* member; item j is what the encoder call produced for the member's j-th text
\* and carries index j, counted from 0.
C28_OwnTextsInOrder ==
    \A e \in DOMAIN future :
        future[e].state = "result" =>
            LET data == future[e].value.data
            IN  /\ Len(data) = Len(items[e].input)
                /\ \A j \in 1..Len(data) :
                      /\ data[j].text = items[e].input[j]
                      /\ data[j].index = j - 1

\* the second and the third member of a batch hold their results; the second
\* has two texts and follows a member with one
C28_Witness ==
    \E b \in DOMAIN batches :
        /\ Len(batches[b].batch) = 3
        /\ Len(items[batches[b].batch[1]].input) = 1
        /\ Len(items[batches[b].batch[2]].input) = 2
        /\ future[batches[b].batch[2]].state = "result"
        /\ Len(future[batches[b].batch[2]].value.data) = 2
        /\ future[batches[b].batch[3]].state = "result"

\* C29: no fan-out calls set_result or set_exception on a future that is done
\* (the InvalidStateError such a call raises ends the fan-out loop), and a
\* future that is done is never written again.
C29_FutureWrittenOnce ==
    /\ [](\A b \in DOMAIN batches : batches[b].outcome # "fanout_aborted")
    /\ [][ \A e \in DOMAIN future :
              Done(future[e]) => future'[e] = future[e] ]_vars

\* the batches whose _process_batch has started and has not ended
Executing == { b \in DOMAIN batches : batches[b].pc \in {"waiting", "running"} }

\* C30: active_batches holds exactly the batches whose _process_batch has
\* started and has not ended, whatever the outcome of those that have ended;
\* it is empty whenever no _process_batch is running.
C30_ActiveWhileExecuting ==
    /\ active_batches = Executing
    /\ Executing = {} => active_batches = {}

\* a batch runs, a batch waits for a slot, and batches have ended with the
\* encoder call failed and with all results delivered
C30_Witness ==
    /\ \E b \in active_batches : batches[b].pc = "running"
    /\ \E b \in active_batches : batches[b].pc = "waiting"
    /\ \E b \in DOMAIN batches :
          /\ batches[b].outcome = "encoder_failed"
          /\ b \notin active_batches

\* C31: whether a member succeeds is decided by its own flags, not by those
\* of the other members of its batch: only a member with no flag set holds
\* the error of the flag validation, and no member with no flag set holds a
\* result.
C31_OwnFlagsDecide ==
    \A e \in DOMAIN future :
        /\ (future[e].state = "exception"
            /\ future[e].value.error = "ValueError") => items[e].flags = {}
        /\ future[e].state = "result" => items[e].flags # {}

\* C32: whenever batch_lock is free pending_requests holds fewer than
\* BATCH_SIZE entries; no batch of any path has more than BATCH_SIZE members;
\* and every add_request that dispatches leaves the queue empty.
C32_QueueBelowBatchSize ==
    /\ [](batch_lock = "free" => Len(pending_requests) < BATCH_SIZE)
    /\ [](\A b \in DOMAIN batches : Len(batches[b].batch) <= BATCH_SIZE)
    /\ [][ ( /\ Len(batches') > Len(batches)
             /\ batches'[Len(batches')].via = "inline" )
           => pending_requests' = <<>> ]_vars

\* with BATCH_SIZE = 2: an add_request has dispatched two entries and left the
\* queue empty, the sweeper has taken the third entry alone, and batch_lock
\* is free
C32_Witness ==
    /\ BATCH_SIZE = 2
    /\ Len(batches) = 2
    /\ batches[1].via = "inline"
    /\ Len(batches[1].batch) = BATCH_SIZE
    /\ batches[2].via = "sweeper"
    /\ Len(batches[2].batch) = BATCH_SIZE - 1
    /\ pending_requests = <<>>
    /\ batch_lock = "free"

\* C33: with MAX_QUEUE_SIZE >= BATCH_SIZE no add_request raises the capacity
\* error, and none ever finds MAX_QUEUE_SIZE entries queued.
C33_CapacityUnreachable ==
    MAX_QUEUE_SIZE >= BATCH_SIZE =>
        /\ last_error # "503_capacity"
        /\ Len(pending_requests) < MAX_QUEUE_SIZE

\* with MAX_QUEUE_SIZE >= BATCH_SIZE: every add_request has been accepted
\* while one batch is inside the section and another waits for a slot
C33_Witness ==
    /\ MAX_QUEUE_SIZE >= BATCH_SIZE
    /\ Len(items) = MaxEntries
    /\ last_error = "none"
    /\ \E b \in DOMAIN batches : batches[b].pc = "running"
    /\ \E b \in DOMAIN batches : batches[b].pc = "waiting"

\* C34: every list handed to _process_batch, by whatever path, has at least
\* one member (so that batch[0] exists), and total_requests is never less than
\* total_batches.
C34_NoEmptyBatch ==
    /\ \A b \in DOMAIN batches : Len(batches[b].batch) >= 1
    /\ stats.total_requests >= stats.total_batches

\* the sweeper and graceful_shutdown have each handed over a single entry and
\* both batches have been counted: total_requests equals total_batches
C34_Witness ==
    /\ \E b \in DOMAIN batches :
          batches[b].via = "sweeper" /\ Len(batches[b].batch) = 1
    /\ \E b \in DOMAIN batches :
          batches[b].via = "shutdown" /\ Len(batches[b].batch) = 1
    /\ stats.total_batches = 2
    /\ stats.total_requests = 2

====
